---- MODULE Spec2Model ----
(***************************************************************************)
(* Model of api/ai.ts: the Vercel handler, its violation checker, the      *)
(* per-user conversation memory (Redis list or in-memory map) and the      *)
(* fallback TTL context cache.                                             *)
(*                                                                         *)
(* Text is modelled as a sequence of tokens.  A token is either a maximal  *)
(* run of word characters (a "word"), or one of the two separator tokens   *)
(* NL (a line feed) and PUNCT (any other non-word, non-space character).   *)
(* Two adjacent words are separated by exactly one space.  A regular       *)
(* expression of the form /\b(p1|p2|...)\b/i, where every pi is a phrase   *)
(* of words joined by single spaces, matches a text iff some pi occurs as  *)
(* a contiguous run of words of the text, compared case-insensitively.     *)
(***************************************************************************)
EXTENDS Integers, Sequences, FiniteSets, TLC

\* ------------------------------------------------------------------ bounds
MaxTicks == 1
MaxCalls == 3
MaxCacheOps == 4

\* --------------------------------------------------------- program constants
MAX_MESSAGES_PER_USER == 150
DEFAULT_TTL == 600000
SEARCH_TTL == 300000
MEM_EXPIRE_SECONDS == 2592000
RECENT_WINDOW == 40
QUERY_SLICE == 300

\* ---------------------------------------------------------------- text model
NL == "\n"
PUNCT == "/"

IsWord(t) == t # NL /\ t # PUNCT

\* String.prototype.toLowerCase on a word (the /i flag of the patterns)
Lower(w) ==
  CASE w = "Cheat" -> "cheat"
    [] w = "Grade" -> "grade"
    [] w = "BOMB" -> "bomb"
    [] OTHER -> w

\* number of characters of one token
TokLen(t) ==
  CASE t = NL -> 1
    [] t = PUNCT -> 1
    [] t = "lorem801" -> 801
    [] t = "hello" -> 5
    [] t = "cheater" -> 7
    [] t = "Cheat" -> 5
    [] t = "Grade" -> 5
    [] t = "grades" -> 6
    [] t = "rubric" -> 6
    [] t = "homework" -> 8
    [] t = "games" -> 5
    [] t = "story" -> 5
    [] t = "play" -> 4
    [] t = "make" -> 4
    [] t = "bomb" -> 4
    [] t = "BOMB" -> 4
    [] t = "http" -> 4
    [] t = "do" -> 2
    [] t = "my" -> 2
    [] t = "a" -> 1
    [] OTHER -> 3

\* a space stands between two adjacent words and nowhere else
SpaceBefore(text, i) == IF i > 1 /\ IsWord(text[i]) /\ IsWord(text[i - 1]) THEN 1 ELSE 0

RECURSIVE LenUpTo(_, _)
LenUpTo(text, n) ==
  IF n = 0 THEN 0 ELSE LenUpTo(text, n - 1) + SpaceBefore(text, n) + TokLen(text[n])

\* String.prototype.length
CharLen(text) == LenUpTo(text, Len(text))

\* String.prototype.slice(0, n): the whole tokens that fit, followed by the
\* cut remainder of the token the bound falls in (a word that is no phrase word)
Slice0(text, n) ==
  IF CharLen(text) <= n THEN text
  ELSE LET k == CHOOSE j \in 0..Len(text) :
                  /\ LenUpTo(text, j) <= n
                  /\ \A m \in (j + 1)..Len(text) : LenUpTo(text, m) > n
       IN IF LenUpTo(text, k) = n \/ LenUpTo(text, k) + SpaceBefore(text, k + 1) = n
          THEN SubSeq(text, 1, k)
          ELSE Append(SubSeq(text, 1, k), "cut")

RECURSIVE TrimLeft(_)
TrimLeft(text) == IF text # <<>> /\ Head(text) = NL THEN TrimLeft(Tail(text)) ELSE text

RECURSIVE TrimRight(_)
TrimRight(text) ==
  IF text # <<>> /\ text[Len(text)] = NL THEN TrimRight(SubSeq(text, 1, Len(text) - 1)) ELSE text

\* String.prototype.trim
Trim(text) == TrimRight(TrimLeft(text))

\* ------------------------------------------------------- violation checker
FORBIDDEN_PATTERNS == <<
  [re |-> {<<"do", "my", "homework">>, <<"write", "my", "essay">>, <<"take", "my", "test">>,
           <<"do", "my", "assignment">>, <<"complete", "my", "assignment">>},
   reason |-> "academic dishonesty"],
  [re |-> {<<"cheat">>, <<"cheating">>, <<"exam", "answers">>, <<"test", "answers">>},
   reason |-> "cheating"],
  [re |-> {<<"bomb">>, <<"explosive">>, <<"detonate">>, <<"make", "a", "bomb">>},
   reason |-> "weapons/explosives"],
  [re |-> {<<"how", "to", "hack">>, <<"hack", "into">>, <<"break", "into">>},
   reason |-> "illegal hacking"],
  [re |-> {<<"play", "games">>, <<"play", "minecraft">>, <<"play", "roblox">>,
           <<"start", "a", "game", "for", "me">>},
   reason |-> "playing games / disruption"]
>>

\* the phrase occurs in the text at token position i
PhraseAt(text, phrase, i) ==
  /\ i + Len(phrase) - 1 <= Len(text)
  /\ \A j \in 1..Len(phrase) : Lower(text[i + j - 1]) = phrase[j]

\* RegExp.prototype.test for one pattern of the table
ReTest(re, text) == \E phrase \in re : \E i \in 1..Len(text) : PhraseAt(text, phrase, i)

RECURSIVE HitsFrom(_, _)
HitsFrom(text, n) ==
  IF n > Len(FORBIDDEN_PATTERNS) THEN <<>>
  ELSE (IF ReTest(FORBIDDEN_PATTERNS[n].re, text) THEN <<FORBIDDEN_PATTERNS[n].reason>> ELSE <<>>)
       \o HitsFrom(text, n + 1)

checkViolations(text) == HitsFrom(text, 1)

\* ------------------------------------------------------------- heuristics
SEARCH_RE == {<<"search", "for">>, <<"find">>, <<"sources">>, <<"verify">>, <<"ground">>,
              <<"cite">>, <<"reference">>, <<"references">>}

REASONING_RE == {<<"analyze">>, <<"critique">>, <<"evaluate">>, <<"grade">>, <<"feedback">>,
                 <<"rubric">>}

\* the three strings accepted as a truthy override flag
TruthyStrings == {"str:1", "str:true", "str:yes"}

\* a || b on strings
OrElse(a, b) == IF a # <<>> THEN a ELSE b

needsSearchHeuristic(body) ==
  \/ body.useBraveSearch = "bool:true"
  \/ body.useBraveSearch \in TruthyStrings
  \/ ReTest(SEARCH_RE, body.message)
  \/ body.url # <<>>

needsReasoningHeuristic(body) ==
  \/ body.useReasoning = "bool:true"
  \/ body.useReasoning \in TruthyStrings
  \/ body.action = "analyze_essay"
  \/ CharLen(OrElse(body.message, body.essay)) > 800
  \/ ReTest(REASONING_RE, OrElse(body.message, body.essay))

\* ------------------------------------------------------------ value shapes
\* every string the program builds is a record [kind, body]
Text(tokens) == [kind |-> "text", body |-> tokens]
Null == [kind |-> "null", body |-> <<>>]
Undefined == [kind |-> "undefined", body |-> <<>>]
RefusalReply(violations) == [kind |-> "refusal", body |-> violations]
EssayWarning(essayViol) == [kind |-> "essayWarning", body |-> essayViol]
NoKeySentinel == [kind |-> "No GEMINI_API_KEY configured.", body |-> <<>>]
LlmCallError == [kind |-> "LLM call error", body |-> <<>>]
LlmText(shape) == [kind |-> "llm", body |-> <<shape>>]
SearchOk(query) == [kind |-> "sr", body |-> query]
SearchError == [kind |-> "error", body |-> <<>>]

\* what fetch + r.json() of the completion backend can give callGemini: a body
\* that lines 359-362 turn into a string, or an exception
GeminiOutcomes == {"text", "throw"}

\* lines 359-364: the reply callGemini returns for each outcome
GeminiReply(outcome) == IF outcome = "throw" THEN LlmCallError ELSE LlmText(outcome)

\* ------------------------------------------------------------ context cache
\* mutant of cacheGet: the expiry test of line 284 is missing
cacheGetNoExpiry(m, k, t) == IF k \notin DOMAIN m THEN Undefined ELSE m[k].value

\* contextCache.get (lines 281-286): the value returned
cacheGet(m, k, t) ==
  IF k \notin DOMAIN m THEN Undefined
  ELSE IF t > m[k].expiresAt THEN Undefined
  ELSE m[k].value

\* contextCache.get (lines 281-286): the map it leaves
cacheGetMap(m, k, t) ==
  IF k \in DOMAIN m /\ t > m[k].expiresAt THEN [x \in DOMAIN m \ {k} |-> m[x]] ELSE m

\* contextCache.set (lines 287-289)
cacheSet(m, k, v, ttl, t) ==
  [x \in DOMAIN m \cup {k} |-> IF x = k THEN [value |-> v, expiresAt |-> t + ttl] ELSE m[x]]

BraveKey(query) == [ns |-> "brave", q |-> query]

\* -------------------------------------------------------------- memory store
JSONstringify(e) == [json |-> e]
JSONparse(s) == s.json

\* a Redis start index: negative counts from the end, clamped to the head
RedisStart(len, i) == IF i < 0 THEN (IF len + i < 0 THEN 0 ELSE len + i) ELSE i

\* a Redis stop index: negative counts from the end, clamped to the tail
RedisStop(len, i) == IF i < 0 THEN len + i ELSE (IF i >= len THEN len - 1 ELSE i)

\* the elements start..stop (0-based, inclusive) of a Redis list
RedisRange(list, start, stop) ==
  LET a == RedisStart(Len(list), start)
      b == RedisStop(Len(list), stop)
  IN IF a > b \/ a >= Len(list) THEN <<>> ELSE SubSeq(list, a + 1, b + 1)

\* RPUSH key value
Rpush(list, s) == Append(list, s)

\* LTRIM key start stop
Ltrim(list, start, stop) == RedisRange(list, start, stop)

\* LRANGE key start stop
Lrange(list, start, stop) == RedisRange(list, start, stop)

\* mutant of InMemoryAppend: line 301 starts from a new array instead of the stored one
InMemoryAppendFresh(arr, e) == <<e>>

\* lines 301-304: push, then splice off the oldest beyond the bound
InMemoryAppend(arr, e) ==
  LET pushed == Append(arr, e)
  IN IF Len(pushed) > MAX_MESSAGES_PER_USER
     THEN SubSeq(pushed, Len(pushed) - MAX_MESSAGES_PER_USER + 1, Len(pushed))
     ELSE pushed

\* lines 310-311: lrange 0 -1 and JSON.parse of every element
ParseAll(list) == [i \in 1..Len(list) |-> JSONparse(list[i])]

\* mem.slice(-40) of buildConversationContext, rendered as role and content
Recent(mem) ==
  LET from == IF Len(mem) > RECENT_WINDOW THEN Len(mem) - RECENT_WINDOW + 1 ELSE 1
  IN [i \in 1..(Len(mem) - from + 1) |->
        [role |-> mem[from + i - 1].role, content |-> mem[from + i - 1].content]]

\* ===================================================================== state
Users == {"u1", "u2"}
Requests == {"r1", "r2"}

\* the log lengths one user may already hold when the requests arrive
Prefills == {0, MAX_MESSAGES_PER_USER - 1}

VARIABLES
  redis,             \* TRUE iff the module-level `redis` client is non-null
  GEMINI_API_KEY,    \* "" when not configured
  BRAVE_TOKEN,       \* "" when not configured
  now,               \* Date.now()
  ticks,             \* number of clock advances so far
  IN_MEMORY_MEMORY,  \* userId -> array of entries
  redisList,         \* userId -> the Redis list mem:<userId>
  redisTtl,          \* userId -> seconds set by the last EXPIRE, 0 if none
  map,               \* the fallback contextCache's map: key -> [value, expiresAt]
  req,               \* request -> the handler invocation's position and locals
  hist,              \* ghost: userId -> every entry ever pushed, in push order
  mcall,             \* a direct appendMemory call in progress (SpecMem)
  cops,              \* number of direct cache operations so far (SpecCache)
  lastGet,           \* ghost: the last direct contextCache.get and what it met
  lastSet,           \* ghost: key -> the last direct contextCache.set of that key
  probe              \* the last direct call of a pure function: its argument and result

vars == <<redis, GEMINI_API_KEY, BRAVE_TOKEN, now, ticks, IN_MEMORY_MEMORY, redisList,
          redisTtl, map, req, hist, mcall, cops, lastGet, lastSet, probe>>

config == <<redis, GEMINI_API_KEY, BRAVE_TOKEN>>
direct == <<mcall, cops, lastGet, lastSet, probe>>

\* ------------------------------------------------------------ request bodies
NoBody ==
  [action |-> "chat", message |-> <<>>, essay |-> <<>>, url |-> <<>>,
   useBraveSearch |-> "absent", useReasoning |-> "absent", searchQuery |-> <<>>]

BombEssay == <<"a", "story", PUNCT, "make", "a", "BOMB">>

\* the request bodies the model sends (userId is chosen separately)
Bodies == {
  [NoBody EXCEPT !.message = <<"Cheat">>, !.url = <<"http", PUNCT, "play", "games">>],
  [NoBody EXCEPT !.message = <<"cheater", "do", "my">>, !.url = <<"homework">>],
  [NoBody EXCEPT !.action = "analyze_essay", !.essay = BombEssay]
}

\* lines 456-457
checkText(body) == Trim(body.message \o <<NL>> \o body.url)

\* line 483
SearchQuery(body) ==
  OrElse(body.searchQuery,
         IF body.essay # <<>> THEN Slice0(body.essay, QUERY_SLICE)
         ELSE Slice0(body.message, QUERY_SLICE))

\* line 523: the content recorded as the user's message
UserContent(body) == Text(OrElse(body.message, OrElse(body.essay, body.searchQuery)))

NoResponse == [status |-> 0, json |-> [kind |-> "none"]]

IdleReq ==
  [pc |-> "idle", method |-> "POST", userId |-> "u1", body |-> NoBody,
   violations |-> <<>>, essayWarning |-> Null, doSearch |-> FALSE, doReasoning |-> FALSE,
   searchResults |-> Null, ctx |-> <<>>, aiResponse |-> Null,
   amEntry |-> [role |-> "assistant", content |-> Null, id |-> <<"none", 0>>],
   ret |-> "none", appended |-> <<>>, searchCalls |-> 0, geminiCalls |-> 0,
   response |-> NoResponse]

PrefillEntry(i) ==
  [role |-> "user", content |-> Text(<<"hello">>), id |-> <<"pre", i>>]

PrefillLog(n) == [i \in 1..n |-> PrefillEntry(i)]

EmptyMap == [k \in {} |-> Null]

IdleCall == [pc |-> "idle", userId |-> "u1", amEntry |-> IdleReq.amEntry, n |-> 0]
NoSet == [value |-> Undefined, at |-> 0, ttl |-> 0, n |-> 0]
\* no pure function has been called directly yet
NoProbe == [fn |-> "none"]

NoGet == [key |-> BraveKey(<<>>), at |-> 0, value |-> Undefined, kept |-> FALSE, met |-> NoSet, n |-> 0]

InitStores(n) ==
  /\ now = 0 /\ ticks = 0
  /\ IN_MEMORY_MEMORY = [u \in Users |-> IF ~redis /\ u = "u1" THEN PrefillLog(n) ELSE <<>>]
  /\ redisList = [u \in Users |-> IF redis /\ u = "u1" THEN [i \in 1..n |-> JSONstringify(PrefillEntry(i))] ELSE <<>>]
  /\ redisTtl = [u \in Users |-> IF redis /\ u = "u1" /\ n > 0 THEN MEM_EXPIRE_SECONDS ELSE 0]
  /\ hist = [u \in Users |-> IF u = "u1" THEN PrefillLog(n) ELSE <<>>]
  /\ map = EmptyMap
  /\ req = [r \in Requests |-> IdleReq]
  /\ mcall = IdleCall
  /\ cops = 0
  /\ lastGet = NoGet
  /\ lastSet = EmptyMap
  /\ probe = NoProbe

Init ==
  /\ redis \in BOOLEAN
  /\ GEMINI_API_KEY \in {"", "key"}
  /\ BRAVE_TOKEN \in {"", "token"}
  /\ \E n \in Prefills : InitStores(n)

\* the stored log of a user, whichever store is configured
StoredLog(u) == IF redis THEN ParseAll(redisList[u]) ELSE IN_MEMORY_MEMORY[u]

\* lines 307-314: what readMemory returns when the store answers
readMemory(u) ==
  IF redis THEN ParseAll(Lrange(redisList[u], 0, -1)) ELSE IN_MEMORY_MEMORY[u]

\* =================================================================== handler
\* res.status(status).json(json): the invocation ends
\* (its locals go out of scope; the request, its response and the ghost fields stay)
Send(rq, status, json) ==
  [IdleReq EXCEPT !.pc = "done", !.method = rq.method, !.userId = rq.userId, !.body = rq.body,
                  !.appended = rq.appended, !.searchCalls = rq.searchCalls,
                  !.geminiCalls = rq.geminiCalls,
                  !.response = [status |-> status, json |-> json]]

\* lines 538-541: the top-level catch
Catch500(rq) == Send(rq, 500, [error |-> "Handler error"])

\* lines 459-462: the refusal response
RefusedJson(rq) ==
  [refused |-> TRUE, reason |-> rq.violations, reply |-> RefusalReply(rq.violations)]

\* lines 531-537: JSON.stringify drops the searchResults field when it is undefined
FinalJson(rq) ==
  IF rq.doSearch
  THEN [reply |-> rq.aiResponse, usedSearch |-> BRAVE_TOKEN # "",
        usedReasoning |-> rq.doReasoning, searchResults |-> rq.searchResults,
        essayWarning |-> rq.essayWarning]
  ELSE [reply |-> rq.aiResponse, usedSearch |-> FALSE,
        usedReasoning |-> rq.doReasoning, essayWarning |-> rq.essayWarning]

\* lines 293-305, up to the first await: with Redis the RPUSH is issued and the
\* caller suspends; without it the whole append runs before the caller's await.
\* An entry is {role, content, ts}; ts is written and never read and is left out,
\* and id is a ghost field that tells the entries of the requests apart.
CallAppendMemory(r, rq, cm, role, content, ret) ==
  LET e == [role |-> role, content |-> content, id |-> <<r, Len(rq.appended) + 1>>]
  IN /\ map' = cm
     /\ IF redis
        THEN /\ req' = [req EXCEPT ![r] = [rq EXCEPT !.pc = "am_rpush", !.amEntry = e, !.ret = ret]]
             /\ UNCHANGED <<IN_MEMORY_MEMORY, hist>>
        ELSE /\ IN_MEMORY_MEMORY' = [IN_MEMORY_MEMORY EXCEPT ![rq.userId] = InMemoryAppend(@, e)]
             /\ hist' = [hist EXCEPT ![rq.userId] = Append(@, e)]
             /\ req' = [req EXCEPT ![r] = [rq EXCEPT !.pc = "am_await", !.amEntry = e, !.ret = ret,
                                                  !.appended = Append(@, e)]]

\* lines 346-357, up to the await: no key returns the sentinel without a fetch
CallGemini(r, rq, cm) ==
  /\ map' = cm
  /\ UNCHANGED <<IN_MEMORY_MEMORY, hist>>
  /\ IF GEMINI_API_KEY = ""
     THEN req' = [req EXCEPT ![r] = [rq EXCEPT !.pc = "gemini_await", !.aiResponse = NoKeySentinel]]
     ELSE req' = [req EXCEPT ![r] = [rq EXCEPT !.pc = "gemini_fetch", !.geminiCalls = @ + 1]]

\* the response sent as soon as the completion call returns, the reply not appended
AfterGeminiNoAppend(r, rq, ai) ==
  /\ req' = [req EXCEPT ![r] = Send([rq EXCEPT !.aiResponse = ai], 200,
                                     FinalJson([rq EXCEPT !.aiResponse = ai]))]
  /\ UNCHANGED <<IN_MEMORY_MEMORY, hist, map>>

\* lines 527-537
AfterGemini(r, rq, ai) ==
  CallAppendMemory(r, [rq EXCEPT !.aiResponse = ai], map, "assistant", ai, "respond")

\* lines 505-523, after readMemory has returned mem
AfterReadMemory(r, rq, mem) ==
  CallAppendMemory(r, [rq EXCEPT !.ctx = Recent(mem)], map, "user", UserContent(rq.body), "gemini")

\* lines 498-505 and 434-435, up to the await of readMemory
BuildContext(r, rq, cm) ==
  /\ map' = cm
  /\ UNCHANGED <<IN_MEMORY_MEMORY, hist>>
  /\ req' = [req EXCEPT ![r] = [rq EXCEPT !.pc = IF redis THEN "lrange" ELSE "ctx_await"]]

\* lines 475-496, up to the await of braveWebSearch
AfterWarning(r, rq0) ==
  LET rq == [rq0 EXCEPT !.doSearch = needsSearchHeuristic(rq0.body),
                        !.doReasoning = needsReasoningHeuristic(rq0.body)]
      key == BraveKey(SearchQuery(rq.body))
      cached == cacheGet(map, key, now)
      cm == cacheGetMap(map, key, now)
  IN IF rq.doSearch /\ BRAVE_TOKEN # ""
     THEN IF cached # Undefined
          THEN BuildContext(r, [rq EXCEPT !.searchResults = cached], cm)
          ELSE /\ map' = cm
               /\ UNCHANGED <<IN_MEMORY_MEMORY, hist>>
               /\ req' = [req EXCEPT ![r] = [rq EXCEPT !.pc = "brave_fetch", !.searchCalls = @ + 1]]
     ELSE BuildContext(r, rq, map)

\* the code that runs when the awaited appendMemory has returned
Continue(r, rq) ==
  CASE rq.ret = "respond_refused" ->
         /\ req' = [req EXCEPT ![r] = Send(rq, 200, RefusedJson(rq))]
         /\ UNCHANGED <<IN_MEMORY_MEMORY, hist, map>>
    [] rq.ret = "search" -> AfterWarning(r, rq)
    [] rq.ret = "gemini" -> CallGemini(r, rq, map)
    [] rq.ret = "respond" ->
         /\ req' = [req EXCEPT ![r] = Send(rq, 200, FinalJson(rq))]
         /\ UNCHANGED <<IN_MEMORY_MEMORY, hist, map>>

\* a gate that lets the request through although its intent text matched
RefuseSkipped(r, rq) == AfterWarning(r, rq)

\* lines 458-460: the refusal reply is recorded, then (Continue) sent
Refuse(r, rq) ==
  CallAppendMemory(r, rq, map, "assistant", RefusalReply(rq.violations), "respond_refused")

\* lines 441-473, up to the first await
\* (the requests are taken in the order r1, r2, and u1 names the user of r1)
Receive(r) ==
  /\ req[r].pc = "idle"
  /\ r = "r2" => req["r1"].pc # "idle"
  /\ \E method \in {"POST", "GET"}, u \in (IF r = "r1" THEN {"u1"} ELSE Users), b \in Bodies :
       LET rq0 == IF method = "POST"
                  THEN [req[r] EXCEPT !.method = method, !.userId = u, !.body = b]
                  ELSE [req[r] EXCEPT !.method = method]
           violations == checkViolations(checkText(b))
           essayViol == checkViolations(b.essay)
       IN IF method # "POST"
          THEN /\ req' = [req EXCEPT ![r] = Send(rq0, 405, [error |-> "POST only"])]
               /\ UNCHANGED <<IN_MEMORY_MEMORY, hist, map>>
          ELSE IF Len(violations) > 0
          THEN Refuse(r, [rq0 EXCEPT !.violations = violations])
          ELSE IF b.essay # <<>> /\ Len(essayViol) > 0
          THEN CallAppendMemory(r, [rq0 EXCEPT !.essayWarning = EssayWarning(essayViol)], map,
                                "assistant", EssayWarning(essayViol), "search")
          ELSE AfterWarning(r, rq0)
  /\ UNCHANGED <<config, now, ticks, redisList, redisTtl, direct>>

\* line 296: the RPUSH is served, or the command is rejected
RedisRpush(r) ==
  /\ req[r].pc = "am_rpush"
  /\ \/ /\ redisList' = [redisList EXCEPT ![req[r].userId] = Rpush(@, JSONstringify(req[r].amEntry))]
        /\ hist' = [hist EXCEPT ![req[r].userId] = Append(@, req[r].amEntry)]
        /\ req' = [req EXCEPT ![r].pc = "am_ltrim", ![r].appended = Append(@, req[r].amEntry)]
     \/ /\ req' = [req EXCEPT ![r] = Catch500(req[r])]
        /\ UNCHANGED <<redisList, hist>>
  /\ UNCHANGED <<config, now, ticks, IN_MEMORY_MEMORY, redisTtl, map, direct>>

\* line 297
RedisLtrim(r) ==
  /\ req[r].pc = "am_ltrim"
  /\ \/ /\ redisList' = [redisList EXCEPT ![req[r].userId] = Ltrim(@, -MAX_MESSAGES_PER_USER, -1)]
        /\ req' = [req EXCEPT ![r].pc = "am_expire"]
     \/ /\ req' = [req EXCEPT ![r] = Catch500(req[r])]
        /\ UNCHANGED redisList
  /\ UNCHANGED <<config, now, ticks, IN_MEMORY_MEMORY, redisTtl, map, hist, direct>>

\* lines 298-299, and the caller's code after its await
RedisExpire(r) ==
  /\ req[r].pc = "am_expire"
  /\ \/ /\ redisTtl' = [redisTtl EXCEPT ![req[r].userId] = MEM_EXPIRE_SECONDS]
        /\ Continue(r, req[r])
     \/ /\ req' = [req EXCEPT ![r] = Catch500(req[r])]
        /\ UNCHANGED <<redisTtl, IN_MEMORY_MEMORY, hist, map>>
  /\ UNCHANGED <<config, now, ticks, redisList, direct>>

\* the caller's code after its await of the in-memory appendMemory
AppendReturned(r) ==
  /\ req[r].pc = "am_await"
  /\ Continue(r, req[r])
  /\ UNCHANGED <<config, now, ticks, redisList, redisTtl, direct>>

\* a catch block that calls the search backend a second time before giving up
SearchFailedRetryOnce(r, rq) ==
  IF rq.searchCalls < 2
  THEN /\ req' = [req EXCEPT ![r] = [rq EXCEPT !.searchCalls = @ + 1]]
       /\ UNCHANGED <<IN_MEMORY_MEMORY, hist, map>>
  ELSE BuildContext(r, [rq EXCEPT !.searchResults = SearchError], map)

\* lines 492-495: the catch block of the search; the cache is not written
SearchFailed(r, rq) == BuildContext(r, [rq EXCEPT !.searchResults = SearchError], map)

\* lines 488-495: the search call returns, or throws (network error, !r.ok, bad JSON)
BraveReturned(r) ==
  /\ req[r].pc = "brave_fetch"
  /\ LET query == SearchQuery(req[r].body)
     IN \/ BuildContext(r, [req[r] EXCEPT !.searchResults = SearchOk(query)],
                        cacheSet(map, BraveKey(query), SearchOk(query), SEARCH_TTL, now))
        \/ SearchFailed(r, req[r])
  /\ UNCHANGED <<config, now, ticks, redisList, redisTtl, direct>>

\* lines 310-311: the LRANGE is served, or rejected
RedisLrange(r) ==
  /\ req[r].pc = "lrange"
  /\ \/ AfterReadMemory(r, req[r], readMemory(req[r].userId))
     \/ /\ req' = [req EXCEPT ![r] = Catch500(req[r])]
        /\ UNCHANGED <<IN_MEMORY_MEMORY, hist, map>>
  /\ UNCHANGED <<config, now, ticks, redisList, redisTtl, direct>>

\* line 313: the in-memory array, read when buildConversationContext resumes
MemoryReturned(r) ==
  /\ req[r].pc = "ctx_await"
  /\ AfterReadMemory(r, req[r], readMemory(req[r].userId))
  /\ UNCHANGED <<config, now, ticks, redisList, redisTtl, direct>>

\* lines 349-365: the completion call returns or throws
GeminiReturned(r) ==
  /\ req[r].pc = "gemini_fetch"
  /\ \E outcome \in GeminiOutcomes : AfterGemini(r, req[r], GeminiReply(outcome))
  /\ UNCHANGED <<config, now, ticks, redisList, redisTtl, direct>>

\* line 347 returned the sentinel; the handler resumes after its await
SentinelReturned(r) ==
  /\ req[r].pc = "gemini_await"
  /\ AfterGemini(r, req[r], req[r].aiResponse)
  /\ UNCHANGED <<config, now, ticks, redisList, redisTtl, direct>>

\* the clock advances past the TTL of a search result.  Date.now() is read only
\* by contextCache, so a step of the clock shows only while the cache holds an entry
Tick ==
  /\ ticks < MaxTicks
  /\ DOMAIN map # {}
  /\ now' = now + SEARCH_TTL + 1
  /\ ticks' = ticks + 1
  /\ UNCHANGED <<config, IN_MEMORY_MEMORY, redisList, redisTtl, map, req, hist, direct>>

Next ==
  \/ \E r \in Requests : Receive(r)
  \/ \E r \in Requests : RedisRpush(r)
  \/ \E r \in Requests : RedisLtrim(r)
  \/ \E r \in Requests : RedisExpire(r)
  \/ \E r \in Requests : AppendReturned(r)
  \/ \E r \in Requests : BraveReturned(r)
  \/ \E r \in Requests : RedisLrange(r)
  \/ \E r \in Requests : MemoryReturned(r)
  \/ \E r \in Requests : GeminiReturned(r)
  \/ \E r \in Requests : SentinelReturned(r)
  \/ Tick

Spec == Init /\ [][Next]_vars

\* the handler of a deployment without REDIS_URL: `redis` is null (lines 268-272)
InitInMemory ==
  /\ redis = FALSE
  /\ GEMINI_API_KEY \in {"", "key"}
  /\ BRAVE_TOKEN \in {"", "token"}
  /\ \E n \in Prefills : InitStores(n)

NextInMemory ==
  \/ \E r \in Requests : Receive(r)
  \/ \E r \in Requests : AppendReturned(r)
  \/ \E r \in Requests : BraveReturned(r)
  \/ \E r \in Requests : MemoryReturned(r)
  \/ \E r \in Requests : GeminiReturned(r)
  \/ \E r \in Requests : SentinelReturned(r)
  \/ Tick

SpecInMemory == InitInMemory /\ [][NextInMemory]_vars

\* ======================================================= appendMemory alone
\* appendMemory called directly, one call at a time
MemContents == {Text(<<"hello">>), Text(<<"story">>)}

InitMem ==
  /\ redis \in BOOLEAN
  /\ GEMINI_API_KEY = ""
  /\ BRAVE_TOKEN = ""
  /\ \E n \in Prefills : InitStores(n)

\* lines 293-305, up to the first await
MemCall ==
  /\ mcall.pc = "idle"
  /\ mcall.n < MaxCalls
  /\ \E u \in Users, role \in {"user", "assistant"}, content \in MemContents :
       LET e == [role |-> role, content |-> content, id |-> <<"call", mcall.n + 1>>]
       IN IF redis
          THEN /\ mcall' = [pc |-> "rpush", userId |-> u, amEntry |-> e, n |-> mcall.n + 1]
               /\ UNCHANGED <<IN_MEMORY_MEMORY, hist>>
          ELSE /\ IN_MEMORY_MEMORY' = [IN_MEMORY_MEMORY EXCEPT ![u] = InMemoryAppend(@, e)]
               /\ hist' = [hist EXCEPT ![u] = Append(@, e)]
               /\ mcall' = [pc |-> "idle", userId |-> u, amEntry |-> e, n |-> mcall.n + 1]
  /\ UNCHANGED <<config, now, ticks, redisList, redisTtl, map, req, cops, lastGet, lastSet, probe>>

\* line 296: served or rejected (the call throws)
MemRpush ==
  /\ mcall.pc = "rpush"
  /\ \/ /\ redisList' = [redisList EXCEPT ![mcall.userId] = Rpush(@, JSONstringify(mcall.amEntry))]
        /\ hist' = [hist EXCEPT ![mcall.userId] = Append(@, mcall.amEntry)]
        /\ mcall' = [mcall EXCEPT !.pc = "ltrim"]
     \/ /\ mcall' = [mcall EXCEPT !.pc = "idle"]
        /\ UNCHANGED <<redisList, hist>>
  /\ UNCHANGED <<config, now, ticks, IN_MEMORY_MEMORY, redisTtl, map, req, cops, lastGet, lastSet, probe>>

\* line 297
MemLtrim ==
  /\ mcall.pc = "ltrim"
  /\ \/ /\ redisList' = [redisList EXCEPT ![mcall.userId] = Ltrim(@, -MAX_MESSAGES_PER_USER, -1)]
        /\ mcall' = [mcall EXCEPT !.pc = "expire"]
     \/ /\ mcall' = [mcall EXCEPT !.pc = "idle"]
        /\ UNCHANGED redisList
  /\ UNCHANGED <<config, now, ticks, IN_MEMORY_MEMORY, redisTtl, map, req, hist, cops, lastGet, lastSet, probe>>

\* lines 298-299
MemExpire ==
  /\ mcall.pc = "expire"
  /\ \/ redisTtl' = [redisTtl EXCEPT ![mcall.userId] = MEM_EXPIRE_SECONDS]
     \/ UNCHANGED redisTtl
  /\ mcall' = [mcall EXCEPT !.pc = "idle"]
  /\ UNCHANGED <<config, now, ticks, IN_MEMORY_MEMORY, redisList, map, req, hist, cops, lastGet, lastSet, probe>>

NextMem == MemCall \/ MemRpush \/ MemLtrim \/ MemExpire

SpecMem == InitMem /\ [][NextMem]_vars

\* ======================================================= contextCache alone
\* the fallback contextCache used directly: set, get and the clock
CacheKeys == {BraveKey(<<"hello">>), BraveKey(<<"story">>)}
CacheValues == {SearchOk(<<"hello">>), SearchOk(<<"story">>)}
CacheTtls == {1, SEARCH_TTL, DEFAULT_TTL}
CacheDeltas == {1, SEARCH_TTL}

InitCache ==
  /\ redis = FALSE
  /\ GEMINI_API_KEY = ""
  /\ BRAVE_TOKEN = ""
  /\ InitStores(0)

\* contextCache.set(k, v, ttl); DEFAULT_TTL is the ttl of a call without one
CacheSetOp ==
  /\ cops < MaxCacheOps
  /\ \E k \in CacheKeys, v \in CacheValues, ttl \in CacheTtls :
       /\ map' = cacheSet(map, k, v, ttl, now)
       /\ lastSet' = [x \in DOMAIN lastSet \cup {k} |->
                        IF x = k THEN [value |-> v, at |-> now, ttl |-> ttl, n |-> 1]
                        ELSE lastSet[x]]
  /\ cops' = cops + 1
  /\ UNCHANGED <<config, now, ticks, IN_MEMORY_MEMORY, redisList, redisTtl, req, hist, mcall, lastGet, probe>>

\* contextCache.get(k)
CacheGetOp ==
  /\ cops < MaxCacheOps
  /\ \E k \in CacheKeys :
       /\ map' = cacheGetMap(map, k, now)
       /\ lastGet' = [key |-> k, at |-> now, value |-> cacheGet(map, k, now),
                      kept |-> k \in DOMAIN cacheGetMap(map, k, now),
                      met |-> IF k \in DOMAIN lastSet THEN lastSet[k] ELSE NoSet,
                      n |-> lastGet.n + 1]
  /\ cops' = cops + 1
  /\ UNCHANGED <<config, now, ticks, IN_MEMORY_MEMORY, redisList, redisTtl, req, hist, mcall, lastSet, probe>>

\* the clock advances
CacheTick ==
  /\ cops < MaxCacheOps
  /\ \E d \in CacheDeltas : now' = now + d
  /\ cops' = cops + 1
  /\ UNCHANGED <<config, ticks, IN_MEMORY_MEMORY, redisList, redisTtl, map, req, hist, mcall,
                 lastGet, lastSet, probe>>

NextCache == CacheSetOp \/ CacheGetOp \/ CacheTick

SpecCache == InitCache /\ [][NextCache]_vars

\* ========================================== needsReasoningHeuristic alone
\* the values of body.useReasoning: absent, booleans, and strings
ReasoningFlags == {"absent", "bool:true", "bool:false", "str:1", "str:true", "str:yes", "str:no"}

ReasoningActions == {"chat", "analyze_essay"}

ReasoningMessages == {<<>>, <<"hello">>, <<"lorem801">>, <<"Grade", "my", "story">>, <<"grades">>}

ReasoningEssays == {<<>>, <<"story">>, <<"lorem801">>, <<"a", "rubric">>}

ReasoningBodies ==
  {[NoBody EXCEPT !.useReasoning = f, !.action = a, !.message = m, !.essay = e] :
     f \in ReasoningFlags, a \in ReasoningActions, m \in ReasoningMessages, e \in ReasoningEssays}

\* no store, no key, no request: only pure functions are called
InitPure ==
  /\ redis = FALSE
  /\ GEMINI_API_KEY = ""
  /\ BRAVE_TOKEN = ""
  /\ InitStores(0)

\* lines 376-384: one call of needsReasoningHeuristic(body)
\* (the function reads no state, so one call per behaviour shows all it does)
ProbeReasoning ==
  /\ probe = NoProbe
  /\ \E body \in ReasoningBodies :
       probe' = [fn |-> "needsReasoningHeuristic", arg |-> body,
                 result |-> needsReasoningHeuristic(body)]
  /\ UNCHANGED <<config, now, ticks, IN_MEMORY_MEMORY, redisList, redisTtl, map, req, hist,
                 mcall, cops, lastGet, lastSet>>

NextReasoning == ProbeReasoning

SpecReasoning == InitPure /\ [][NextReasoning]_vars

\* ================================================== gradeRubricSummary alone
\* the longest grade designator the model passes, in pieces
MaxGradeLen == 3

\* a designator is a sequence of pieces: one digit, one blank, or a run of letters
GradeDigits == {"0", "1", "2", "3", "5", "6", "8", "9"}
GradeLetters == {"K", "elementary", "middle", "High", "th"}
GradePieces == GradeDigits \cup GradeLetters \cup {" "}

DigitValue(p) ==
  CASE p = "0" -> 0 [] p = "1" -> 1 [] p = "2" -> 2 [] p = "3" -> 3
    [] p = "5" -> 5 [] p = "6" -> 6 [] p = "8" -> 8 [] p = "9" -> 9

\* String.prototype.toLowerCase on a piece
LowerPiece(p) ==
  CASE p = "K" -> "k"
    [] p = "High" -> "high"
    [] OTHER -> p

RECURSIVE TrimLeftBlank(_)
TrimLeftBlank(s) == IF s # <<>> /\ Head(s) = " " THEN TrimLeftBlank(Tail(s)) ELSE s

RECURSIVE TrimRightBlank(_)
TrimRightBlank(s) ==
  IF s # <<>> /\ s[Len(s)] = " " THEN TrimRightBlank(SubSeq(s, 1, Len(s) - 1)) ELSE s

\* line 389: String(g).trim().toLowerCase()
GradeString(s) == [i \in 1..Len(TrimRightBlank(TrimLeftBlank(s))) |->
                     LowerPiece(TrimRightBlank(TrimLeftBlank(s))[i])]

\* String.prototype.includes for a run of letters that lies within one piece
Includes(s, w) == \E i \in 1..Len(s) : s[i] = w

\* the value normalizeGrade returns: null or a number
NullGrade == [null |-> TRUE, n |-> 0]
NumGrade(n) == [null |-> FALSE, n |-> n]

\* the argument of normalizeGrade: null (no designator) or a string
NoGrade == [null |-> TRUE, s |-> <<>>]
GradeOf(s) == [null |-> FALSE, s |-> s]

\* line 391: s.match(/(\d{1,2})/) then parseInt(m[1], 10):
\* the leftmost digit and the digit directly after it, if there is one
MatchDigits(s) ==
  LET i == CHOOSE j \in 1..Len(s) : s[j] \in GradeDigits /\ \A m \in 1..(j - 1) : s[m] \notin GradeDigits
  IN IF i < Len(s) /\ s[i + 1] \in GradeDigits
     THEN 10 * DigitValue(s[i]) + DigitValue(s[i + 1])
     ELSE DigitValue(s[i])

\* the keyword test placed before the digit match
normalizeGradeKeywordFirst(g) ==
  IF g.null \/ g.s = <<>> THEN NullGrade
  ELSE LET s == GradeString(g.s)
       IN IF Includes(s, "k") THEN NumGrade(0)
          ELSE IF Includes(s, "elementary") THEN NumGrade(3)
          ELSE IF Includes(s, "middle") THEN NumGrade(7)
          ELSE IF Includes(s, "high") THEN NumGrade(10)
          ELSE IF \E i \in 1..Len(s) : s[i] \in GradeDigits THEN NumGrade(MatchDigits(s))
          ELSE NullGrade

\* lines 387-398
normalizeGrade(g) ==
  IF g.null \/ g.s = <<>> THEN NullGrade
  ELSE LET s == GradeString(g.s)
       IN IF \E i \in 1..Len(s) : s[i] \in GradeDigits THEN NumGrade(MatchDigits(s))
          ELSE IF Includes(s, "k") THEN NumGrade(0)
          ELSE IF Includes(s, "elementary") THEN NumGrade(3)
          ELSE IF Includes(s, "middle") THEN NumGrade(7)
          ELSE IF Includes(s, "high") THEN NumGrade(10)
          ELSE NullGrade

\* the five summary texts, named by their opening words
SummaryUnspecified == "Grade not specified"
SummaryElementary == "Elementary (K-5) rubric"
SummaryMiddle == "Middle school (6-8) rubric"
SummaryHigh == "High school (9-12) rubric"
SummaryAdvanced == "Grade level indicates advanced expectations"

\* lines 399-415
gradeRubricSummary(gradeRaw) ==
  LET grade == normalizeGrade(gradeRaw)
  IN IF grade.null THEN SummaryUnspecified
     ELSE IF grade.n = 0 \/ grade.n <= 5 THEN SummaryElementary
     ELSE IF grade.n >= 6 /\ grade.n <= 8 THEN SummaryMiddle
     ELSE IF grade.n >= 9 /\ grade.n <= 12 THEN SummaryHigh
     ELSE SummaryAdvanced

RECURSIVE GradeStrings(_)
GradeStrings(n) ==
  IF n = 0 THEN {<<>>}
  ELSE GradeStrings(n - 1) \cup {Append(s, p) : s \in GradeStrings(n - 1), p \in GradePieces}

\* line 452: gradeRaw is null when the body names no grade
GradeInputs == {NoGrade} \cup {GradeOf(s) : s \in GradeStrings(MaxGradeLen)}

\* lines 399-415: one call of gradeRubricSummary(gradeRaw)
ProbeGrade ==
  /\ probe = NoProbe
  /\ \E g \in GradeInputs :
       probe' = [fn |-> "gradeRubricSummary", arg |-> g, result |-> gradeRubricSummary(g)]
  /\ UNCHANGED <<config, now, ticks, IN_MEMORY_MEMORY, redisList, redisTtl, map, req, hist,
                 mcall, cops, lastGet, lastSet>>

NextGrade == ProbeGrade

SpecGrade == InitPure /\ [][NextGrade]_vars

\* ==================================================================== claims
Done(r) == req[r].pc = "done"
Posted(r) == Done(r) /\ req[r].method = "POST"
Json(r) == req[r].response.json
Status(r) == req[r].response.status
Has(r, field) == field \in DOMAIN Json(r)
IntentHits(r) == checkViolations(checkText(req[r].body))
EssayHits(r) == checkViolations(req[r].body.essay)
InSeq(e, seq) == \E i \in 1..Len(seq) : seq[i] = e
LastN(seq, n) == IF Len(seq) > n THEN SubSeq(seq, Len(seq) - n + 1, Len(seq)) ELSE seq

\* C1: every answered POST request whose intent text (message, line feed, url)
\* matches a forbidden pattern carries refused = true and a reply naming every
\* matched reason; every one whose intent text matches none carries refused = false.
C1_RefusedIffForbidden ==
  \A r \in Requests :
    Posted(r) =>
      IF IntentHits(r) # <<>>
      THEN /\ Has(r, "refused") /\ Json(r).refused = TRUE
           /\ Has(r, "reply") /\ Json(r).reply = RefusalReply(IntentHits(r))
      ELSE Has(r, "refused") /\ Json(r).refused = FALSE

\* C2: for every answered POST request whose intent text matches no forbidden
\* pattern, the response is not a refusal, it carries the reply of the completion
\* call, and its essayWarning is non-null exactly when the essay body matches a
\* forbidden pattern.
C2_EssayOnlyWarns ==
  \A r \in Requests :
    (Posted(r) /\ IntentHits(r) = <<>>) =>
      /\ ~(Has(r, "refused") /\ Json(r).refused = TRUE)
      /\ Has(r, "reply")
      /\ Has(r, "essayWarning")
      /\ (Json(r).essayWarning # Null) <=> (EssayHits(r) # <<>>)

\* C3: whenever no appendMemory call is in progress, readMemory of every user
\* returns exactly the most recent min(k, 150) of the k entries pushed for that
\* user, oldest first.
C3_RetentionExact ==
  mcall.pc = "idle" =>
    \A u \in Users : readMemory(u) = LastN(hist[u], MAX_MESSAGES_PER_USER)

\* C4: in every reachable state the stored log of every user, in the Redis list
\* and in the in-memory map, holds at most MAX_MESSAGES_PER_USER entries.
C4_LogWithinBound ==
  \A u \in Users :
    /\ Len(redisList[u]) <= MAX_MESSAGES_PER_USER
    /\ Len(IN_MEMORY_MEMORY[u]) <= MAX_MESSAGES_PER_USER

\* C5: once two requests of the same user have both responded, and no more than
\* the retention bound of entries were ever pushed for that user, every entry
\* either request pushed is in that user's stored log.
C5_NoLostAppend ==
  \A r \in Requests : \A q \in Requests \ {r} :
    (Posted(r) /\ Posted(q) /\ req[r].userId = req[q].userId
       /\ Len(hist[req[r].userId]) <= MAX_MESSAGES_PER_USER) =>
      \A i \in 1..Len(req[r].appended) : InSeq(req[r].appended[i], StoredLog(req[r].userId))

\* two requests of one user have both responded with 200, each pushed at least
\* two entries, and their entries are interleaved in the stored log
C5_Witness ==
  /\ Posted("r1") /\ Posted("r2")
  /\ Status("r1") = 200 /\ Status("r2") = 200
  /\ req["r1"].userId = req["r2"].userId
  /\ Len(hist[req["r1"].userId]) <= MAX_MESSAGES_PER_USER
  /\ Len(req["r1"].appended) >= 2 /\ Len(req["r2"].appended) >= 2
  /\ LET log == StoredLog(req["r1"].userId)
     IN \E i, j, k \in 1..Len(log) :
          /\ i < j /\ j < k
          /\ log[i].id[1] = "r2" /\ log[j].id[1] = "r1" /\ log[k].id[1] = "r2"

\* C6: a get of key k made after the TTL of the latest set of k has elapsed
\* returns undefined and leaves no entry for k; a get made before that TTL
\* elapses returns the value of the latest set of k.
C6_CacheTtl ==
  (lastGet.n > 0 /\ lastGet.met.n > 0) =>
    /\ lastGet.at > lastGet.met.at + lastGet.met.ttl =>
         (lastGet.value = Undefined /\ ~lastGet.kept)
    /\ lastGet.at < lastGet.met.at + lastGet.met.ttl =>
         lastGet.value = lastGet.met.value

\* a key was set twice, the clock passed the TTL of the second set, and a get
\* of the key then missed
C6_Witness ==
  /\ lastGet.n > 0 /\ lastGet.met.n > 0
  /\ lastGet.met.at > 0
  /\ lastGet.at > lastGet.met.at + lastGet.met.ttl
  /\ lastGet.value = Undefined
  /\ lastGet.key \notin DOMAIN map

\* C7: every POST request answered with status 200, refused or not, has by then
\* pushed to its user's log both the request's user message and the assistant
\* reply returned in the response.
C7_BothLogged ==
  \A r \in Requests :
    (Posted(r) /\ Status(r) = 200) =>
      /\ \E i \in 1..Len(req[r].appended) :
           /\ req[r].appended[i].role = "user"
           /\ req[r].appended[i].content = UserContent(req[r].body)
      /\ \E i \in 1..Len(req[r].appended) :
           /\ req[r].appended[i].role = "assistant"
           /\ req[r].appended[i].content = Json(r).reply

\* C8: every POST request ends with status 200 and a reply, whatever collaborator
\* call (search, completion, conversation store) failed on the way; none ends in
\* the top-level handler's 500.
C8_FailuresDegrade ==
  \A r \in Requests : Posted(r) => (Status(r) = 200 /\ Has(r, "reply"))

\* C9: with no completion credential configured, every non-refused POST request
\* ends with status 200 and the not-configured sentinel as its reply, and makes
\* no network call to the completion backend.
C9_NoKeySentinel ==
  GEMINI_API_KEY = "" =>
    \A r \in Requests :
      (Posted(r) /\ IntentHits(r) = <<>>) =>
        /\ Status(r) = 200
        /\ Has(r, "reply") /\ Json(r).reply = NoKeySentinel
        /\ req[r].geminiCalls = 0

\* C10: after two analyze_essay requests of the same user with the same essay
\* have both responded, the result cache holds an entry keyed by that essay.
C10_EssayCached ==
  (/\ Posted("r1") /\ Posted("r2")
   /\ req["r1"].body.action = "analyze_essay" /\ req["r2"].body.action = "analyze_essay"
   /\ req["r1"].userId = req["r2"].userId
   /\ req["r1"].body.essay = req["r2"].body.essay) =>
    \E k \in DOMAIN map : k.q = SearchQuery(req["r1"].body)

\* ---------------------------------------------------------------------- C11
\* an explicit reasoning override is set: the flag is true or a truthy string
OverrideSet(body) == body.useReasoning = "bool:true" \/ body.useReasoning \in TruthyStrings

\* C11: needsReasoningHeuristic returns true exactly when an explicit override
\* is set, or the action is analyze_essay, or the message is longer than 800
\* characters, or the essay is longer than 800 characters, or the message
\* contains an analytical-intent keyword, and false when none of these holds
C11_ReasoningTriggers ==
  probe.fn = "needsReasoningHeuristic" =>
    LET body == probe.arg
    IN probe.result = (\/ OverrideSet(body)
                       \/ body.action = "analyze_essay"
                       \/ CharLen(body.message) > 800
                       \/ CharLen(body.essay) > 800
                       \/ ReTest(REASONING_RE, body.message))

\* ---------------------------------------------------------------------- C12
HasDigit(s) == \E i \in 1..Len(s) : s[i] \in GradeDigits

FirstDigit(s) == CHOOSE i \in 1..Len(s) : s[i] \in GradeDigits /\ \A m \in 1..(i - 1) : s[m] \notin GradeDigits

\* the last position of the run of digits that starts at position i
RECURSIVE RunEnd(_, _)
RunEnd(s, i) == IF i < Len(s) /\ s[i + 1] \in GradeDigits THEN RunEnd(s, i + 1) ELSE i

\* the decimal number written by the digits at positions i..j
RECURSIVE Decimal(_, _, _)
Decimal(s, i, j) == IF j < i THEN 0 ELSE 10 * Decimal(s, i, j - 1) + DigitValue(s[j])

\* the summary text of the band a number belongs to
BandSummary(n) ==
  CASE n <= 5 -> SummaryElementary
    [] n >= 6 /\ n <= 8 -> SummaryMiddle
    [] n >= 9 /\ n <= 12 -> SummaryHigh
    [] OTHER -> SummaryAdvanced

Summaries == {SummaryUnspecified, SummaryElementary, SummaryMiddle, SummaryHigh, SummaryAdvanced}

\* C12 as stated: every designator maps to one band; when the string contains
\* a run of digits the band is that of the number the whole run writes, whatever
\* keywords the string holds; gradeRubricSummary returns that band's text
C12_WholeRunDecides ==
  probe.fn = "gradeRubricSummary" =>
    /\ probe.result \in Summaries
    /\ probe.arg.null => probe.result = SummaryUnspecified
    /\ (~probe.arg.null /\ HasDigit(probe.arg.s)) =>
         probe.result = BandSummary(Decimal(probe.arg.s, FirstDigit(probe.arg.s),
                                            RunEnd(probe.arg.s, FirstDigit(probe.arg.s))))

\* the number written by the first digit and the digit directly after it, if any
FirstTwoDigits(s) ==
  LET i == FirstDigit(s)
      j == IF RunEnd(s, i) > i THEN i + 1 ELSE i
  IN Decimal(s, i, j)

\* C12 (amended): every designator, absent or a string, maps to exactly one of
\* the five bands; when the string contains a digit the band is that of the
\* number written by the first one or two digits of its first run of digits,
\* whatever keywords the string holds; without a digit the keywords k,
\* elementary, middle, high decide in that order, else the band is unspecified;
\* gradeRubricSummary returns the fixed summary text of that band
C12_FirstTwoDigitsDecide ==
  probe.fn = "gradeRubricSummary" =>
    LET g == probe.arg
        s == GradeString(g.s)
    IN /\ probe.result \in Summaries
       /\ (g.null \/ g.s = <<>>) => probe.result = SummaryUnspecified
       /\ (~g.null /\ HasDigit(g.s)) => probe.result = BandSummary(FirstTwoDigits(g.s))
       /\ (~g.null /\ g.s # <<>> /\ ~HasDigit(g.s)) =>
            probe.result = (IF Includes(s, "k") \/ Includes(s, "elementary") THEN SummaryElementary
                            ELSE IF Includes(s, "middle") THEN SummaryMiddle
                            ELSE IF Includes(s, "high") THEN SummaryHigh
                            ELSE SummaryUnspecified)

\* a designator with a digit and the keyword of another band was summarised
C12_Witness ==
  /\ probe.fn = "gradeRubricSummary"
  /\ probe.arg = GradeOf(<<"elementary", " ", "9">>)
  /\ probe.result = SummaryHigh

\* ---------------------------------------------------------------------- C13
InFlight(r) == req[r].pc \notin {"idle", "done"}
Appending(r) == req[r].pc \in {"am_rpush", "am_ltrim", "am_expire", "am_await"}
Proceeding(r) == req[r].pc # "idle" /\ req[r].method = "POST" /\ IntentHits(r) = <<>>
IsPrefix(a, b) == Len(a) <= Len(b) /\ SubSeq(b, 1, Len(a)) = a

\* role and content of the entries a request has pushed so far, in push order
Pushed(r) ==
  [i \in 1..Len(req[r].appended) |->
     [role |-> req[r].appended[i].role, content |-> req[r].appended[i].content]]

\* what a proceeding request pushes before it calls the completion backend
WarningPart(r) ==
  IF req[r].body.essay # <<>> /\ EssayHits(r) # <<>>
  THEN <<[role |-> "assistant", content |-> EssayWarning(EssayHits(r))]>>
  ELSE <<>>
UserPart(r) == <<[role |-> "user", content |-> UserContent(req[r].body)]>>
ReplyPart(reply) == <<[role |-> "assistant", content |-> reply]>>

C14_NoRetries ==
  /\ \A r \in Requests : req[r].searchCalls <= 1 /\ req[r].geminiCalls <= 1
  /\ \A k \in DOMAIN map : map[k].value.kind = "sr"
  /\ \A r \in Requests :
       (Posted(r) /\ Has(r, "searchResults") /\ Json(r).searchResults = SearchError) =>
         req[r].searchCalls = 1

\* a request whose search call and completion call both failed was answered,
\* each backend called once and the cache left without its query
C14_Witness ==
  \E r \in Requests :
    /\ Posted(r) /\ Status(r) = 200
    /\ Has(r, "searchResults") /\ Json(r).searchResults = SearchError
    /\ Json(r).reply = LlmCallError
    /\ req[r].searchCalls = 1 /\ req[r].geminiCalls = 1
    /\ BraveKey(SearchQuery(req[r].body)) \notin DOMAIN map

\* ---------------------------------------------------------------------- C15
\* the request bodies whose intent text matches a forbidden pattern
RefusedBodies == {b \in Bodies : checkViolations(checkText(b)) # <<>>}

\* the entry a refused request records
RefusalEntry(r, rq) ==
  [role |-> "assistant", content |-> RefusalReply(checkViolations(checkText(rq.body))),
   id |-> <<r, 1>>]

\* C15: every step of a request whose intent text matches a forbidden pattern
\* makes no search call and no completion call and leaves the cache as it was;
\* it leaves the logs of all other users as they were, and changes the log of its
\* own user by nothing but the append of one assistant entry holding the refusal
\* reply (with the retention cut of that append); a refusal answered with 200
\* has appended exactly that entry
C15_RefusalFrame ==
  [][\A r \in Requests :
       (/\ req'[r] # req[r]
        /\ req'[r].method = "POST"
        /\ req'[r].body \in RefusedBodies) =>
         \A u \in {v \in Users : v = req'[r].userId} :
         LET e == RefusalEntry(r, req'[r])
             old == StoredLog(u)
         IN /\ req'[r].searchCalls = 0 /\ req'[r].geminiCalls = 0
            /\ map' = map
            /\ \A v \in Users \ {u} :
                 /\ IN_MEMORY_MEMORY'[v] = IN_MEMORY_MEMORY[v]
                 /\ redisList'[v] = redisList[v]
                 /\ redisTtl'[v] = redisTtl[v]
                 /\ hist'[v] = hist[v]
            /\ \/ redisList'[u] = redisList[u] /\ IN_MEMORY_MEMORY'[u] = IN_MEMORY_MEMORY[u]
               \/ StoredLog(u)' \in {Append(old, e), LastN(Append(old, e), MAX_MESSAGES_PER_USER),
                                     LastN(old, MAX_MESSAGES_PER_USER)}
            /\ hist'[u] \in {hist[u], Append(hist[u], e)}
            /\ req'[r].appended \in {<<>>, <<e>>}
            /\ (req'[r].pc = "done" /\ req'[r].response.status = 200) =>
                 /\ req'[r].appended = <<e>>
                 /\ InSeq(e, StoredLog(u)')
            /\ \A q \in Requests \ {r} : req'[q] = req[q]]_vars

\* a refusal was answered after one append, while another user's request had
\* written to its own log and the cache held a search result
C15_Witness ==
  \E r \in Requests, q \in Requests :
    /\ Posted(r) /\ Status(r) = 200 /\ IntentHits(r) # <<>>
    /\ Len(req[r].appended) = 1
    /\ req[r].searchCalls = 0 /\ req[r].geminiCalls = 0
    /\ req[q].userId # req[r].userId /\ req[q].method = "POST" /\ Len(req[q].appended) > 0
    /\ DOMAIN map # {}

====
